---- MODULE Spec2Model ----
(***************************************************************************)
(* Model of the profile collection pipeline of secondproject.py:           *)
(*   - the batch loop of render_parser_page and collect_profile with its   *)
(*     source adapters (specification Spec, SpecFair),                     *)
(*   - api_request_with_retry (specification SpecRetry),                   *)
(*   - playtime normalisation of scraped values (specification SpecNorm).  *)
(*                                                                         *)
(* Strings of the source that are written in Cyrillic are transliterated.  *)
(* A profile URL is the sequence of its path segments after the host, so   *)
(* that "https://host/profiles/765/" is <<"profiles", "765", "">>.         *)
(*                                                                         *)
(* Exceptions in the batch loop: collect_profile may raise, and a          *)
(* rendering call placed after results.append inside the try block         *)
(* (lines 512-521) may raise.  The status line of line 508 and the         *)
(* st.error of the handler itself (line 525) are taken to succeed.         *)
(***************************************************************************)
EXTENDS Integers, Sequences, FiniteSets, TLC

\* ------------------------------------------------------------------------
\* Bounds
\* ------------------------------------------------------------------------
MaxUrls == 2

\* ------------------------------------------------------------------------
\* Values
\* ------------------------------------------------------------------------
UrlSet ==
  { <<"profiles", "765">>, <<"id", "alice">> }

PUBLIC_STATE == 3

NoSummary ==
  [present |-> FALSE, nickname |-> "", profile_state |-> 0]

Summaries ==
  { [present |-> TRUE, nickname |-> "nick", profile_state |-> s] : s \in {1, 3} }

NoExc == "none"

MaxRetriesMsg == "Prevysheno maksimalnoe kolichestvo popytok"

TimeoutMsg == "Timeout"

NoSteamIdMsg == "Oshibka: Ne udalos izvlech SteamID"

ConnErrMsg == "Oshibka: ConnectionError"

UIMsg == "StreamlitAPIException"

\* a game entry; playtime is a string (scrape) or a number (API)
ScrapeGame ==
  [appid |-> 730, name |-> "CS2", isstr |-> TRUE, str |-> <<"1", "2", ".", "5">>, num |-> 0]

ApiGame ==
  [appid |-> 730, name |-> "CS2", isstr |-> FALSE, str |-> <<>>, num |-> 60]

RecentDefault ==
  [total_2weeks_hours |-> 0, recent_games |-> <<>>, error |-> TRUE]

\* the answer for an account with no game played in the last two weeks
RecentData ==
  [total_2weeks_hours |-> 0, recent_games |-> <<>>, error |-> FALSE]

Friend == [steamid |-> "999", friend_since |-> 1]

Group == [name |-> "grp", url |-> "g/grp"]

\* the two ways api_request_with_retry ends: a decoded body or a raise
ApiRaises == {MaxRetriesMsg, TimeoutMsg}

VARIABLES
  profile_urls, i, results, origin, pc, exc, profile_data,
  steamid, summary, games, recent_data, level, friends, groups,
  calls, scraped, invoked, delays, progress, last_pause

bvars ==
  <<profile_urls, i, results, origin, pc, exc, profile_data,
    steamid, summary, games, recent_data, level, friends, groups,
    calls, scraped, invoked, delays, progress, last_pause>>

\* api_request_with_retry
VARIABLES script, attempt, rpc, resp_log, gets, slept, outcome

rvars == <<script, attempt, rpc, resp_log, gets, slept, outcome>>

\* one scraped game entry and what the four consumers make of it
VARIABLES raw, playtime_forever, entry, npc, excel_minutes, cs2_time, total_hours,
  total_time

nvars ==
  <<raw, playtime_forever, entry, npc, excel_minutes, cs2_time, total_hours,
    total_time>>

\* the API key gate: st.session_state and the key input widget
VARIABLES api_key, api_key_confirmed, api_key_input, request_keys

kvars == <<api_key, api_key_confirmed, api_key_input, request_keys>>

\* a finished batch and what the export and the pages compute from it
VARIABLES parsed_results, workbook, all_games, cs2_data, ran

avars == <<parsed_results, workbook, all_games, cs2_data, ran>>

\* one call of extract_steamid: its argument, how it ended, its requests
VARIABLES profile_url, extracted, page_gets, epc

evars == <<profile_url, extracted, page_gets, epc>>

\* one call of get_game_prices: its argument, the loop index, the chunks
\* built, the app ids each request carried, the result
VARIABLES appids, chunk_start, built, sent, prices, price_sleeps, ppc

pvars == <<appids, chunk_start, built, sent, prices, price_sleeps, ppc>>

vars == <<bvars, rvars, nvars, kvars, avars, evars, pvars>>

\* the variables of the other machines stay as they are
BatchOnly == UNCHANGED <<rvars, nvars, kvars, avars, evars, pvars>>

RetryOnly == UNCHANGED <<bvars, nvars, kvars, avars, evars, pvars>>

NormOnly == UNCHANGED <<bvars, rvars, kvars, avars, evars, pvars>>

KeyOnly == UNCHANGED <<bvars, rvars, nvars, avars, evars, pvars>>

AggOnly == UNCHANGED <<bvars, rvars, nvars, kvars, evars, pvars>>

ResolveOnly == UNCHANGED <<bvars, rvars, nvars, kvars, avars, pvars>>

PricesOnly == UNCHANGED <<bvars, rvars, nvars, kvars, avars, evars>>

\* ------------------------------------------------------------------------
\* extract_steamid
\* ------------------------------------------------------------------------
\* "/profiles/" in profile_url: a segment "profiles" followed by a slash
HasProfilesForm(url) ==
  \E k \in 1..(Len(url) - 1) : url[k] = "profiles"

RECURSIVE RStripSlash(_)
RStripSlash(url) ==
  IF url # <<>> /\ url[Len(url)] = ""
    THEN RStripSlash(SubSeq(url, 1, Len(url) - 1))
    ELSE url

\* profile_url.rstrip("/").split("/")[-1]; the host when no segment is left
LastSegment(url) ==
  LET u == RStripSlash(url)
  IN IF u = <<>> THEN "steamcommunity.com" ELSE u[Len(u)]

\* what the GET of the profile page gives: a steamid match, no match, an error
PageOutcomes == {"match", "nomatch", "neterr"}

ThisUrl == profile_urls[i]

ExtractSteamid ==
  /\ BatchOnly
  /\ pc = "extract"
  /\ last_pause' = FALSE
  /\ calls' = Append(calls, "extract_steamid")
  /\ IF HasProfilesForm(ThisUrl)
       THEN /\ steamid' = LastSegment(ThisUrl)
            /\ pc' = "summary"
            /\ exc' = exc
       ELSE \E o \in PageOutcomes :
              CASE o = "match"   -> /\ steamid' = "76561"
                                    /\ pc' = "summary"
                                    /\ exc' = exc
                [] o = "nomatch" -> /\ exc' = NoSteamIdMsg
                                    /\ pc' = "except"
                                    /\ steamid' = steamid
                [] OTHER         -> /\ exc' = ConnErrMsg
                                    /\ pc' = "except"
                                    /\ steamid' = steamid
  /\ UNCHANGED <<profile_urls, i, results, origin, profile_data, summary, games,
                 recent_data, level, friends, groups, scraped, invoked, delays, progress>>

\* ------------------------------------------------------------------------
\* collect_profile: summary and privacy gate
\* ------------------------------------------------------------------------
\* mutant: only an absent summary counts as private
IsPrivate_OnlyAbsent(s) ==
  ~s.present

\* get_profile_summary sleeps 0.5 s only after the "no players" return
SummaryPauses(s) == s.present

IsPrivate(s) ==
  (~s.present) \/ s.profile_state # PUBLIC_STATE

PrivateRecord(sid) == [steamid |-> sid, error |-> "PROFILE_PRIVATE"]

GetProfileSummary ==
  /\ BatchOnly
  /\ pc = "summary"
  /\ calls' = Append(calls, "get_profile_summary")
  /\ \/ \E m \in ApiRaises :
          /\ exc' = m
          /\ pc' = "except"
          /\ last_pause' = FALSE
          /\ UNCHANGED <<summary, profile_data>>
     \/ \E s \in Summaries \cup {NoSummary} :
          /\ summary' = s
          /\ exc' = exc
          /\ last_pause' = SummaryPauses(s)
          /\ IF IsPrivate(s)
               THEN /\ profile_data' = PrivateRecord(steamid)
                    /\ pc' = "append"
               ELSE /\ profile_data' = profile_data
                    /\ pc' = "scrape"
  /\ UNCHANGED <<profile_urls, i, results, origin, steamid, games,
                 recent_data, level, friends, groups, scraped, invoked, delays, progress>>

\* ------------------------------------------------------------------------
\* collect_profile: games
\* ------------------------------------------------------------------------
\* get_games_from_html: the list, or [] when the block is absent, the JSON
\* does not parse or the GET fails
ScrapeOutcomes == {"list", "emptyarray", "nomatch", "badjson", "neterr"}

ScrapeResult(o) ==
  IF o = "list" THEN <<ScrapeGame>> ELSE <<>>

\* mutant: the API list always replaces the scraped one
NeedsApiGames_Always(g) == TRUE

\* if not games: games = get_games(steamid)
NeedsApiGames(g) == g = <<>>

\* get_games_from_html sleeps 0.5 s only when rgGames was found and parsed
ScrapePauses(o) == o \in {"list", "emptyarray"}

GetGamesFromHtml ==
  /\ BatchOnly
  /\ pc = "scrape"
  /\ calls' = Append(calls, "get_games_from_html")
  /\ \E o \in ScrapeOutcomes :
       /\ games' = ScrapeResult(o)
       /\ scraped' = ScrapeResult(o)
       /\ last_pause' = ScrapePauses(o)
       /\ pc' = IF NeedsApiGames(ScrapeResult(o)) THEN "api_games" ELSE "recent"
  /\ UNCHANGED <<profile_urls, i, results, origin, exc, profile_data, steamid,
                 summary, recent_data, level, friends, groups, invoked, delays,
                 progress>>

ApiGameLists == { <<>>, <<ApiGame>> }

\* get_games has no handler of its own: a raise leaves collect_profile
GetGamesRaise(m) ==
  /\ last_pause' = FALSE
  /\ exc' = m
  /\ pc' = "except"
  /\ games' = games

GetGames ==
  /\ BatchOnly
  /\ pc = "api_games"
  /\ calls' = Append(calls, "get_games")
  /\ \/ \E m \in ApiRaises : GetGamesRaise(m)
     \/ \E g \in ApiGameLists :
          /\ games' = g
          /\ last_pause' = TRUE
          /\ pc' = "recent"
          /\ exc' = exc
  /\ UNCHANGED <<profile_urls, i, results, origin, profile_data, steamid,
                 summary, recent_data, level, friends, groups, scraped, invoked, delays,
                 progress>>

\* ------------------------------------------------------------------------
\* collect_profile: recent playtime, level, friends, groups
\* ------------------------------------------------------------------------
GetRecentPlaytime ==
  /\ BatchOnly
  /\ pc = "recent"
  /\ calls' = Append(calls, "get_recent_playtime")
  /\ \E r \in {RecentDefault, RecentData} :
       /\ recent_data' = r
       /\ last_pause' = ~r.error
  /\ pc' = "level"
  /\ UNCHANGED <<profile_urls, i, results, origin, exc, profile_data, steamid,
                 summary, games, level, friends, groups, scraped, invoked, delays,
                 progress>>

GetSteamLevel ==
  /\ BatchOnly
  /\ pc = "level"
  /\ calls' = Append(calls, "get_steam_level")
  /\ \/ \E m \in ApiRaises :
          /\ exc' = m
          /\ pc' = "except"
          /\ last_pause' = FALSE
          /\ level' = level
     \/ /\ level' = 10
        /\ last_pause' = TRUE
        /\ pc' = "friends"
        /\ exc' = exc
  /\ UNCHANGED <<profile_urls, i, results, origin, profile_data, steamid,
                 summary, games, recent_data, friends, groups, scraped, invoked, delays,
                 progress>>

\* get_friends: any failure inside is swallowed
FriendsOnFailure == <<>>

GetFriends ==
  /\ BatchOnly
  /\ pc = "friends"
  /\ calls' = Append(calls, "get_friends")
  /\ \/ /\ friends' = FriendsOnFailure
        /\ last_pause' = FALSE
     \/ /\ friends' = <<Friend>>
        /\ last_pause' = TRUE
  /\ pc' = "groups"
  /\ UNCHANGED <<profile_urls, i, results, origin, exc, profile_data, steamid,
                 summary, games, recent_data, level, groups, scraped, invoked, delays,
                 progress>>

SuccessRecord(sid, url, s, lv, g, fr, gr, rd) ==
  [steamid |-> sid, profile_url |-> url, nickname |-> s.nickname,
   level |-> lv, games |-> g, friends |-> fr, groups |-> gr,
   recent_playtime |-> rd.total_2weeks_hours, recent_games |-> rd.recent_games]

\* get_groups has no time.sleep on any path
GroupsPauses == FALSE

\* get_groups, then the dict of collect_profile is returned
GetGroups ==
  /\ BatchOnly
  /\ pc = "groups"
  /\ last_pause' = GroupsPauses
  /\ calls' = Append(calls, "get_groups")
  /\ \E gr \in { <<>>, <<Group>> } :
       /\ groups' = gr
       /\ profile_data' = SuccessRecord(steamid, ThisUrl, summary, level, games,
                                        friends, gr, recent_data)
  /\ pc' = "append"
  /\ UNCHANGED <<profile_urls, i, results, origin, exc, steamid,
                 summary, games, recent_data, level, friends, scraped, invoked, delays,
                 progress>>

\* ------------------------------------------------------------------------
\* render_parser_page: the batch loop
\* ------------------------------------------------------------------------
Fresh ==
  /\ steamid' = ""
  /\ summary' = NoSummary
  /\ games' = <<>>
  /\ recent_data' = RecentDefault
  /\ level' = 0
  /\ friends' = <<>>
  /\ groups' = <<>>
  /\ profile_data' = PrivateRecord("")
  /\ exc' = NoExc

\* for i, url in enumerate(profile_urls): status text, call collect_profile
LoopEnter ==
  /\ BatchOnly
  /\ pc = "loop"
  /\ i <= Len(profile_urls)
  /\ last_pause' = FALSE
  /\ pc' = "extract"
  /\ invoked' = invoked \cup {i}
  /\ calls' = <<>>
  /\ scraped' = <<>>
  /\ UNCHANGED <<profile_urls, i, results, origin, exc, profile_data, steamid,
                 summary, games, recent_data, level, friends, groups, delays,
                 progress>>

\* results.append(profile_data)
AppendResult ==
  /\ BatchOnly
  /\ pc = "append"
  /\ last_pause' = last_pause
  /\ results' = Append(results, profile_data)
  /\ origin' = Append(origin, i)
  /\ pc' = "display"
  /\ UNCHANGED <<profile_urls, i, exc, profile_data, steamid, summary, games,
                 recent_data, level, friends, groups, calls, scraped, invoked, delays,
                 progress>>

\* with result_container: st.error / st.success
Display ==
  /\ BatchOnly
  /\ pc = "display"
  /\ last_pause' = last_pause
  /\ \/ /\ pc' = "progress"
        /\ exc' = exc
     \/ /\ pc' = "except"
        /\ exc' = UIMsg
  /\ UNCHANGED <<profile_urls, i, results, origin, profile_data, steamid,
                 summary, games, recent_data, level, friends, groups, calls,
                 scraped, invoked, delays, progress>>

\* the next iteration of the for loop
NextItem ==
  /\ i' = i + 1
  /\ pc' = "loop"
  /\ Fresh

\* progress_bar.progress((i + 1) / len(profile_urls))
Progress ==
  /\ BatchOnly
  /\ pc = "progress"
  /\ last_pause' = last_pause
  /\ progress' = Append(progress, <<i, Len(profile_urls)>>)
  /\ IF i < Len(profile_urls)
       THEN /\ pc' = "sleep"
            /\ UNCHANGED <<i, exc, profile_data, steamid, summary, games,
                           recent_data, level, friends, groups>>
       ELSE NextItem
  /\ UNCHANGED <<profile_urls, results, origin, calls, scraped, invoked, delays>>

\* time.sleep(delay)
Sleep ==
  /\ BatchOnly
  /\ pc = "sleep"
  /\ last_pause' = last_pause
  /\ delays' = delays + 1
  /\ NextItem
  /\ UNCHANGED <<profile_urls, results, origin, calls, scraped, invoked, progress>>

\* mutant: the message of the exception is dropped
ErrorRecord_NoMessage(url, msg) == [steamid |-> url, error |-> "error"]

ErrorRecord(url, msg) == [steamid |-> url, error |-> msg]

\* mutant: the handler ends the loop
Except_Abort ==
  /\ BatchOnly
  /\ pc = "except"
  /\ last_pause' = last_pause
  /\ results' = Append(results, ErrorRecord(ThisUrl, exc))
  /\ origin' = Append(origin, i)
  /\ pc' = "done"
  /\ UNCHANGED <<i, exc, profile_data, steamid, summary, games,
                 recent_data, level, friends, groups>>
  /\ UNCHANGED <<profile_urls, calls, scraped, invoked, delays, progress>>

\* mutant: the handler keeps what collect_profile had fetched
Except_KeepGames ==
  /\ BatchOnly
  /\ pc = "except"
  /\ last_pause' = last_pause
  /\ results' = Append(results, [steamid |-> ThisUrl, error |-> exc, games |-> games])
  /\ origin' = Append(origin, i)
  /\ NextItem
  /\ UNCHANGED <<profile_urls, calls, scraped, invoked, delays, progress>>

\* except Exception as e: results.append({"steamid": url, "error": str(e)})
Except ==
  /\ BatchOnly
  /\ pc = "except"
  /\ last_pause' = last_pause
  /\ results' = Append(results, ErrorRecord(ThisUrl, exc))
  /\ origin' = Append(origin, i)
  /\ NextItem
  /\ UNCHANGED <<profile_urls, calls, scraped, invoked, delays, progress>>

\* the loop is over: status text, st.session_state.parsed_results = results
Finish ==
  /\ BatchOnly
  /\ pc = "loop"
  /\ i > Len(profile_urls)
  /\ last_pause' = last_pause
  /\ pc' = "done"
  /\ UNCHANGED <<profile_urls, i, results, origin, exc, profile_data, steamid,
                 summary, games, recent_data, level, friends, groups, calls,
                 scraped, invoked, delays, progress>>

\* ------------------------------------------------------------------------
\* api_request_with_retry
\* ------------------------------------------------------------------------
max_retries == 3

\* what one requests.get of the call can give: a status, or an exception;
\* "200badjson" is a 200 response whose r.json() raises
Responses == {"200", "200badjson", "429", "500", "Timeout", "ConnectionError"}

\* the answers the server gives to the 1st, 2nd, ... request of the call
Scripts == [1..(max_retries + 1) -> Responses]

NoOutcome == [kind |-> "none", body |-> 0, msg |-> ""]

Returned(b) == [kind |-> "return", body |-> b, msg |-> ""]

Raised(m) == [kind |-> "raise", body |-> 0, msg |-> m]

ExcMsg(resp) ==
  CASE resp = "Timeout"    -> TimeoutMsg
    [] resp = "200badjson" -> "JSONDecodeError"
    [] OTHER               -> "ConnectionError"

\* mutant: a rate limit answer ends the call
On429_Raise(a) ==
  /\ outcome' = Raised("429")
  /\ rpc' = "done"
  /\ UNCHANGED <<attempt, slept>>

\* mutant: the wait is computed from the zero-based attempt
On429_ZeroBased(a) ==
  /\ slept' = Append(slept, 30 * a)
  /\ attempt' = a + 1
  /\ UNCHANGED <<outcome, rpc>>

\* if r.status_code == 429: sleep 30 * (attempt + 1); continue
On429(a) ==
  /\ slept' = Append(slept, 30 * (a + 1))
  /\ attempt' = a + 1
  /\ UNCHANGED <<outcome, rpc>>

\* return r.json(); the body is named by the request that fetched it
On200(a) ==
  /\ outcome' = Returned(gets + 1)
  /\ rpc' = "done"
  /\ UNCHANGED <<attempt, slept>>

\* mutant: the status check is missing
OnOtherStatus_Return(a) ==
  /\ outcome' = Returned(gets + 1)
  /\ rpc' = "done"
  /\ UNCHANGED <<attempt, slept>>

\* if r.status_code != 200: sleep 5; continue
OnOtherStatus(a) ==
  /\ slept' = Append(slept, 5)
  /\ attempt' = a + 1
  /\ UNCHANGED <<outcome, rpc>>

\* except Timeout / except Exception: re-raise on the last attempt, else sleep 5
OnException(a, m) ==
  IF a = max_retries - 1
    THEN /\ outcome' = Raised(m)
         /\ rpc' = "done"
         /\ UNCHANGED <<attempt, slept>>
    ELSE /\ slept' = Append(slept, 5)
         /\ attempt' = a + 1
         /\ UNCHANGED <<outcome, rpc>>

\* one pass of: for attempt in range(max_retries)
RetryAttempt ==
  /\ RetryOnly
  /\ rpc = "get"
  /\ attempt < max_retries
  /\ gets' = gets + 1
  /\ resp_log' = Append(resp_log, script[gets + 1])
  /\ script' = script
  /\ LET resp == script[gets + 1]
     IN CASE resp = "200" -> On200(attempt)
          [] resp = "429" -> On429(attempt)
          [] resp = "500" -> OnOtherStatus(attempt)
          [] OTHER        -> OnException(attempt, ExcMsg(resp))

\* the loop ran out: raise Exception(max retries)
RetryExhausted ==
  /\ RetryOnly
  /\ rpc = "get"
  /\ attempt >= max_retries
  /\ outcome' = Raised(MaxRetriesMsg)
  /\ rpc' = "done"
  /\ UNCHANGED <<attempt, resp_log, gets, slept, script>>

RetryIdle ==
  /\ script = [k \in 1..(max_retries + 1) |-> "200"]
  /\ attempt = 0
  /\ rpc = "idle"
  /\ resp_log = <<>>
  /\ gets = 0
  /\ slept = <<>>
  /\ outcome = NoOutcome

RetryInit ==
  /\ script \in Scripts
  /\ attempt = 0
  /\ rpc = "get"
  /\ resp_log = <<>>
  /\ gets = 0
  /\ slept = <<>>
  /\ outcome = NoOutcome

\* ------------------------------------------------------------------------
\* Playtime of a scraped entry: get_games_from_html and the four consumers
\* ------------------------------------------------------------------------
MaxLen == 4

Chars == {"1", "2", "5", ",", "."}

Digits == {"1", "2", "5"}

HoursStrings == UNION { [1..n -> Chars] : n \in 0..MaxLen }

DigitVal(c) ==
  CASE c = "1" -> 1
    [] c = "2" -> 2
    [] OTHER   -> 5

\* mutant: the comma is taken for a decimal separator
StripCommas_ToDot(s) ==
  [k \in 1..Len(s) |-> IF s[k] = "," THEN "." ELSE s[k]]

\* str.replace(",", "")
StripCommas(s) ==
  SelectSeq(s, LAMBDA c : c # ",")

RECURSIVE DigitsValue(_)
DigitsValue(s) ==
  IF s = <<>> THEN 0
  ELSE 10 * DigitsValue(SubSeq(s, 1, Len(s) - 1)) + DigitVal(s[Len(s)])

RECURSIVE Pow10(_)
Pow10(n) == IF n = 0 THEN 1 ELSE 10 * Pow10(n - 1)

DotPositions(s) == { k \in 1..Len(s) : s[k] = "." }

\* float(s) accepts, over these characters: digits with at most one point
\* and at least one digit
IsFloatLiteral(s) ==
  /\ \A k \in 1..Len(s) : s[k] \in Digits \cup {"."}
  /\ Cardinality(DotPositions(s)) <= 1
  /\ \E k \in 1..Len(s) : s[k] \in Digits

\* float(s) as the fraction num / den
ParseFloat(s) ==
  LET ds == SelectSeq(s, LAMBDA c : c # ".")
      frac == IF DotPositions(s) = {} THEN 0
              ELSE Len(s) - (CHOOSE k \in DotPositions(s) : TRUE)
  IN [num |-> DigitsValue(ds), den |-> Pow10(frac)]

Rat(n) == [num |-> n, den |-> 1]

Times60(r) == [num |-> 60 * r.num, den |-> r.den]

\* int(x) of a non-negative number
IntOf(r) == r.num \div r.den

\* playtime_forever values of the owned-games answer, in minutes
ApiMinutes == {0, 1, 60, 750}

\* the entry did not come from the API
NoApiValue == 0 - 1

\* the dict built for one game of the owned-games answer
ApiEntry(minutes) ==
  [appid |-> 730, name |-> "CS2", isstr |-> FALSE, str |-> <<>>, num |-> minutes]

\* the dict built for one game of rgGames
ScrapedEntry(hours_forever) ==
  [appid |-> 730, name |-> "CS2", isstr |-> TRUE,
   str |-> StripCommas(hours_forever), num |-> 0]

\* create_excel: playtime of one game
ExcelPlaytime(g) ==
  IF g.isstr
    THEN IF IsFloatLiteral(g.str) THEN Times60(ParseFloat(g.str)) ELSE Rat(0)
    ELSE Rat(g.num)

\* render_overview_page: playtime of one game
OverviewPlaytime(g) ==
  IF g.isstr
    THEN IF IsFloatLiteral(g.str) THEN Times60(ParseFloat(g.str)) ELSE Rat(0)
    ELSE Rat(g.num)

\* render_libraries_page: playtime of one game
LibraryPlaytime(g) ==
  IF g.isstr
    THEN IF IsFloatLiteral(g.str) THEN Times60(ParseFloat(g.str)) ELSE Rat(0)
    ELSE Rat(g.num)

\* mutant: a number from the API is scaled like a scraped string
GamesPagePlaytime_Rescale(g) ==
  IF g.isstr
    THEN IF IsFloatLiteral(g.str) THEN Times60(ParseFloat(g.str)) ELSE Rat(0)
    ELSE Rat(60 * g.num)

\* render_games_page: playtime of one game
GamesPagePlaytime(g) ==
  IF g.isstr
    THEN IF IsFloatLiteral(g.str) THEN Times60(ParseFloat(g.str)) ELSE Rat(0)
    ELSE Rat(g.num)

NotRun == [num |-> 0 - 1, den |-> 1]

NoEntry ==
  [appid |-> 0, name |-> "", isstr |-> FALSE, str |-> <<>>, num |-> 0]

\* get_games_from_html appends the entry of one game
StoreEntry ==
  /\ NormOnly
  /\ npc = "page"
  /\ playtime_forever = NoApiValue
  /\ entry' = ScrapedEntry(raw)
  /\ npc' = "stored"
  /\ UNCHANGED <<raw, playtime_forever, excel_minutes, cs2_time, total_hours, total_time>>

\* get_games builds the entry of one game of the owned-games answer
StoreApiEntry ==
  /\ NormOnly
  /\ npc = "page"
  /\ playtime_forever # NoApiValue
  /\ entry' = ApiEntry(playtime_forever)
  /\ npc' = "stored"
  /\ UNCHANGED <<raw, playtime_forever, excel_minutes, cs2_time, total_hours, total_time>>

\* create_excel: the column "Vremya (minuty)" of the Games sheet
CreateExcelRow ==
  /\ NormOnly
  /\ npc = "stored"
  /\ excel_minutes = 0 - 1
  /\ excel_minutes' = IntOf(ExcelPlaytime(entry))
  /\ UNCHANGED <<raw, playtime_forever, entry, npc, cs2_time, total_hours, total_time>>

\* render_overview_page: cs2_time of a profile with this one game
OverviewTotal ==
  /\ NormOnly
  /\ npc = "stored"
  /\ cs2_time = NotRun
  /\ cs2_time' = OverviewPlaytime(entry)
  /\ UNCHANGED <<raw, playtime_forever, entry, npc, excel_minutes, total_hours, total_time>>

\* render_libraries_page: total_hours of a profile with this one game
LibraryTotal ==
  /\ NormOnly
  /\ npc = "stored"
  /\ total_hours = NotRun
  /\ total_hours' = LibraryPlaytime(entry)
  /\ UNCHANGED <<raw, playtime_forever, entry, npc, excel_minutes, cs2_time, total_time>>

\* render_games_page: total_time of the game
GamesPageTotal ==
  /\ NormOnly
  /\ npc = "stored"
  /\ total_time = NotRun
  /\ total_time' = GamesPagePlaytime(entry)
  /\ UNCHANGED <<raw, playtime_forever, entry, npc, excel_minutes, cs2_time, total_hours>>

NormIdle ==
  /\ raw = <<>>
  /\ playtime_forever = NoApiValue
  /\ entry = NoEntry
  /\ npc = "idle"
  /\ excel_minutes = 0 - 1
  /\ cs2_time = NotRun
  /\ total_hours = NotRun
  /\ total_time = NotRun

NormInit ==
  /\ \/ /\ raw \in HoursStrings
        /\ playtime_forever = NoApiValue
     \/ /\ raw = <<>>
        /\ playtime_forever \in ApiMinutes
  /\ entry = NoEntry
  /\ npc = "page"
  /\ excel_minutes = 0 - 1
  /\ cs2_time = NotRun
  /\ total_hours = NotRun
  /\ total_time = NotRun

\* ------------------------------------------------------------------------
\* The API key gate
\* ------------------------------------------------------------------------
MaxRuns == 2

\* a key is known by its number of characters and by which key it is
KeyInputs ==
  {[len |-> 0, tag |-> ""]} \cup
  { [len |-> n, tag |-> t] : n \in {31, 32, 33}, t \in {"a", "b"} }

NoKey == [len |-> 0, tag |-> "None"]

EmptyInput == [len |-> 0, tag |-> ""]

\* mutant: a longer key is accepted as well
ValidKey_AtLeast(k) == k.len >= 32

\* if api_key_input and len(api_key_input) == 32
ValidKey(k) == k.len > 0 /\ k.len = 32

\* mutant: the gate page does not stop the script
PassesGate_NoStop == TRUE

\* if not st.session_state.api_key_confirmed: ... st.stop()
PassesGate == api_key_confirmed

\* the user edits the text input of the gate page
TypeKey ==
  /\ KeyOnly
  /\ ~PassesGate
  /\ \E k \in KeyInputs : api_key_input' = k
  /\ UNCHANGED <<api_key, api_key_confirmed, request_keys>>

\* the confirm button of the gate page
ConfirmKey ==
  /\ KeyOnly
  /\ ~PassesGate
  /\ IF ValidKey(api_key_input)
       THEN /\ api_key' = api_key_input
            /\ api_key_confirmed' = TRUE
            /\ api_key_input' = EmptyInput
       ELSE UNCHANGED <<api_key, api_key_confirmed, api_key_input>>
  /\ UNCHANGED request_keys

\* the "change key" button of the sidebar
ChangeKey ==
  /\ KeyOnly
  /\ PassesGate
  /\ api_key_confirmed' = FALSE
  /\ UNCHANGED <<api_key, api_key_input, request_keys>>

\* a page below the gate runs and sends a request with API_KEY
CollectWithKey ==
  /\ KeyOnly
  /\ PassesGate
  /\ Len(request_keys) < MaxRuns
  /\ request_keys' = Append(request_keys, [key |-> api_key, confirmed |-> api_key_confirmed])
  /\ UNCHANGED <<api_key, api_key_confirmed, api_key_input>>

KeyIdle ==
  /\ api_key = NoKey
  /\ api_key_confirmed = FALSE
  /\ api_key_input = EmptyInput
  /\ request_keys = <<>>

KeyInit ==
  /\ api_key = NoKey
  /\ api_key_confirmed = FALSE
  /\ api_key_input = EmptyInput
  /\ request_keys = <<>>

\* ------------------------------------------------------------------------
\* Aggregation and export over a finished batch
\* ------------------------------------------------------------------------
MaxBatch == 2

MaxGames == 2

\* the nickname of the profile at each input position
Nicknames == <<"A", "B", "C", "D">>

CS2_APPIDS == {730, 710}

\* game entries as get_games builds them; a game the API lists without a
\* name has name None
ApiGames ==
  { [appid |-> 730, name |-> "CS2", isstr |-> FALSE, str |-> <<>>, num |-> 60],
    [appid |-> 710, name |-> "None", isstr |-> FALSE, str |-> <<>>, num |-> 2],
    [appid |-> 570, name |-> "None", isstr |-> FALSE, str |-> <<>>, num |-> 60] }

\* game entries as get_games_from_html builds them: hours as a string
ScrapedGames ==
  { [appid |-> 730, name |-> "CS2", isstr |-> TRUE, str |-> <<"2">>, num |-> 0],
    [appid |-> 570, name |-> "Dota", isstr |-> TRUE, str |-> <<"1">>, num |-> 0] }

\* a games list comes from one adapter and holds an appid once
ListsOver(entries) ==
  { gs \in UNION { [1..n -> entries] : n \in 0..MaxGames } :
      \A a, b \in 1..Len(gs) : gs[a].appid = gs[b].appid => a = b }

GameLists == ListsOver(ApiGames) \cup ListsOver(ScrapedGames)

\* the record collect_profile returns for the public profile at position k
ProfileRecord(k, g, fr, gr) ==
  SuccessRecord("765", <<"profiles", "765">>,
                [present |-> TRUE, nickname |-> Nicknames[k], profile_state |-> 3],
                10, g, fr, gr, RecentData)

\* records that differ in their games
GameKinds ==
  {[ok |-> FALSE, g |-> <<>>, fr |-> <<>>, gr |-> <<>>]} \cup
  { [ok |-> TRUE, g |-> g, fr |-> <<>>, gr |-> <<>>] : g \in GameLists }

\* records that differ in their friends and groups
RelationKinds ==
  {[ok |-> FALSE, g |-> <<>>, fr |-> <<>>, gr |-> <<>>]} \cup
  { [ok |-> TRUE, g |-> g, fr |-> fr, gr |-> gr] :
      g \in { <<>>, <<ApiGame>> }, fr \in { <<>>, <<Friend>> },
      gr \in { <<>>, <<Group>>, <<Group, Group>> } }

RecordOfKind(k, kind) ==
  IF kind.ok THEN ProfileRecord(k, kind.g, kind.fr, kind.gr)
  ELSE PrivateRecord("765")

Batches ==
  UNION { { [k \in 1..n |-> RecordOfKind(k, f[k])] : f \in [1..n -> GameKinds] }
          \cup
          { [k \in 1..n |-> RecordOfKind(k, f[k])] : f \in [1..n -> RelationKinds] }
          : n \in 1..MaxBatch }

\* [r for r in parsed_results if "error" not in r]
Successes(rs) == SelectSeq(rs, LAMBDA r : "error" \notin DOMAIN r)

RECURSIVE Flatten(_)
Flatten(ss) ==
  IF ss = <<>> THEN <<>> ELSE Head(ss) \o Flatten(Tail(ss))

\* the games, friends, groups of all success records, in order
AllOf(rs, field) ==
  Flatten([k \in 1..Len(Successes(rs)) |-> Successes(rs)[k][field]])

RatAdd(a, b) ==
  [num |-> a.num * b.den + b.num * a.den, den |-> a.den * b.den]

\* create_excel: the sheets written and the number of rows of each
CreateExcelSheets(rs) ==
  LET games_data == AllOf(rs, "games")
  IN IF games_data # <<>>
       THEN [sh \in {"Profiles", "Games"} |->
               IF sh = "Profiles" THEN Len(rs) ELSE Len(games_data)]
       ELSE [sh \in {"Profiles"} |-> Len(rs)]

CreateExcel ==
  /\ AggOnly
  /\ "excel" \notin ran
  /\ workbook' = CreateExcelSheets(parsed_results)
  /\ ran' = ran \cup {"excel"}
  /\ UNCHANGED <<parsed_results, all_games, cs2_data>>

\* render_games_page: the loop that fills all_games
RECURSIVE AddGames(_, _)
AddGames(acc, entries) ==
  IF entries = <<>> THEN acc
  ELSE LET g == Head(entries)
           playtime == GamesPagePlaytime(g)
       IN AddGames(
            IF g.name \in DOMAIN acc
              THEN [acc EXCEPT ![g.name] =
                      [total_time |-> RatAdd(@.total_time, playtime),
                       players |-> @.players + 1]]
              ELSE acc @@ (g.name :> [total_time |-> playtime, players |-> 1]),
            Tail(entries))

RenderGamesPage ==
  /\ AggOnly
  /\ "games" \notin ran
  /\ all_games' = AddGames(<<>>, AllOf(parsed_results, "games"))
  /\ ran' = ran \cup {"games"}
  /\ UNCHANGED <<parsed_results, workbook, cs2_data>>

\* render_overview_page: cs2_time of one profile
RECURSIVE Cs2Time(_)
Cs2Time(gs) ==
  IF gs = <<>> THEN Rat(0)
  ELSE LET g == gs[Len(gs)]
           rest == Cs2Time(SubSeq(gs, 1, Len(gs) - 1))
       IN IF g.appid \in CS2_APPIDS THEN RatAdd(rest, OverviewPlaytime(g)) ELSE rest

\* round(cs2_time / 60, 1), in tenths of an hour
RoundedHours(t) ==
  (2 * t.num + 6 * t.den) \div (12 * t.den)

Cs2Row(profile) ==
  [nickname |-> profile.nickname, hours |-> RoundedHours(Cs2Time(profile.games))]

\* the place of x in a list sorted with reverse=True: behind every row
\* whose key is not smaller
InsertDesc(sorted, x) ==
  LET p == Cardinality({ k \in 1..Len(sorted) : sorted[k].hours >= x.hours })
  IN SubSeq(sorted, 1, p) \o <<x>> \o SubSeq(sorted, p + 1, Len(sorted))

\* cs2_data.sort(key=lambda x: x['hours'], reverse=True)
RECURSIVE SortByHoursDesc(_)
SortByHoursDesc(rows) ==
  IF rows = <<>> THEN <<>>
  ELSE InsertDesc(SortByHoursDesc(SubSeq(rows, 1, Len(rows) - 1)), rows[Len(rows)])

RenderOverviewPage ==
  /\ AggOnly
  /\ "overview" \notin ran
  /\ LET results_ok == Successes(parsed_results)
     IN cs2_data' = IF results_ok = <<>> THEN cs2_data
                    ELSE SortByHoursDesc([k \in 1..Len(results_ok) |-> Cs2Row(results_ok[k])])
  /\ ran' = ran \cup {"overview"}
  /\ UNCHANGED <<parsed_results, workbook, all_games>>

AggIdle ==
  /\ parsed_results = <<>>
  /\ workbook = <<>>
  /\ all_games = <<>>
  /\ cs2_data = <<>>
  /\ ran = {}

AggInit ==
  /\ parsed_results \in Batches
  /\ workbook = <<>>
  /\ all_games = <<>>
  /\ cs2_data = <<>>
  /\ ran = {}

\* ------------------------------------------------------------------------
\* extract_steamid on arbitrary input
\* ------------------------------------------------------------------------
MaxSegs == 3

\* what may stand between two slashes behind the host; "" is an empty
\* segment, so a URL ending in "" ends with a slash
Segments == {"", "profiles", "id", "765", "alice", "games"}

\* the segments that match \d+
DigitSegments == {"765", "76561"}

\* the text typed as one line of profile_input, behind
\* "https://steamcommunity.com/"
TypedUrls == UNION { [1..n -> Segments] : n \in 0..MaxSegs }

NotExtracted == [kind |-> "none", value |-> ""]

\* line 195: the "/profiles/" branch returns before any request
ExtractFromUrl ==
  /\ ResolveOnly
  /\ epc = "call"
  /\ HasProfilesForm(profile_url)
  /\ extracted' = [kind |-> "returned", value |-> LastSegment(profile_url)]
  /\ epc' = "done"
  /\ UNCHANGED <<profile_url, page_gets>>

\* lines 196-202: the page is fetched and searched for "steamid":"(\d+)"
ExtractFromPage ==
  /\ ResolveOnly
  /\ epc = "call"
  /\ ~HasProfilesForm(profile_url)
  /\ page_gets' = page_gets + 1
  /\ \E o \in PageOutcomes :
       extracted' = CASE o = "match"   -> [kind |-> "returned", value |-> "76561"]
                      [] o = "nomatch" -> [kind |-> "raised", value |-> NoSteamIdMsg]
                      [] OTHER         -> [kind |-> "raised", value |-> ConnErrMsg]
  /\ epc' = "done"
  /\ UNCHANGED profile_url

ResolveIdle ==
  /\ profile_url = <<>>
  /\ extracted = NotExtracted
  /\ page_gets = 0
  /\ epc = "idle"

ResolveInit ==
  /\ profile_url \in TypedUrls
  /\ extracted = NotExtracted
  /\ page_gets = 0
  /\ epc = "call"

\* ------------------------------------------------------------------------
\* get_game_prices
\* ------------------------------------------------------------------------
MaxApps == 101

\* range(0, len(appids), 50) and appids[i:i+50]
ChunkSize == 50

\* list(all_appids): the app ids of a set, so each once
AppIdLists == { [k \in 1..n |-> k] : n \in 0..MaxApps }

Min(a, b) == IF a < b THEN a ELSE b

\* appids[i:i+50]
ChunkAt(ids, start) ==
  SubSeq(ids, start + 1, Min(start + ChunkSize, Len(ids)))

\* what requests.get(url, headers=HEADERS, timeout=10) sends of the chunk:
\* params is built and not handed to the call
CarriedBy(chunk) == <<>>

\* what the storefront may answer: a decodable body, or the GET or the
\* decoding raises
StoreOutcomes == {"json", "raise"}

\* one iteration of the loop over the chunks
PriceRequest ==
  /\ PricesOnly
  /\ ppc = "loop"
  /\ chunk_start < Len(appids)
  /\ LET appids_chunk == ChunkAt(appids, chunk_start)
     IN /\ built' = Append(built, appids_chunk)
        /\ sent' = Append(sent, CarriedBy(appids_chunk))
        /\ \E o \in StoreOutcomes :
             IF o = "json"
               THEN /\ \E priced \in { {}, {appids_chunk[1]} } :
                         prices' = prices \cup priced
                    /\ price_sleeps' = price_sleeps + 1
               ELSE UNCHANGED <<prices, price_sleeps>>
  /\ chunk_start' = chunk_start + ChunkSize
  /\ UNCHANGED <<appids, ppc>>

\* return prices
PricesReturn ==
  /\ PricesOnly
  /\ ppc = "loop"
  /\ chunk_start >= Len(appids)
  /\ ppc' = "done"
  /\ UNCHANGED <<appids, chunk_start, built, sent, prices, price_sleeps>>

PricesIdle ==
  /\ appids = <<>>
  /\ chunk_start = 0
  /\ built = <<>>
  /\ sent = <<>>
  /\ prices = {}
  /\ price_sleeps = 0
  /\ ppc = "idle"

PricesInit ==
  /\ appids \in AppIdLists
  /\ chunk_start = 0
  /\ built = <<>>
  /\ sent = <<>>
  /\ prices = {}
  /\ price_sleeps = 0
  /\ ppc = "loop"

\* ------------------------------------------------------------------------
\* Specifications
\* ------------------------------------------------------------------------
UrlLists ==
  UNION { [1..n -> UrlSet] : n \in 1..MaxUrls }

BatchInit ==
  /\ profile_urls \in UrlLists
  /\ i = 1
  /\ results = <<>>
  /\ origin = <<>>
  /\ pc = "loop"
  /\ exc = NoExc
  /\ profile_data = PrivateRecord("")
  /\ steamid = ""
  /\ summary = NoSummary
  /\ games = <<>>
  /\ recent_data = RecentDefault
  /\ level = 0
  /\ friends = <<>>
  /\ groups = <<>>
  /\ calls = <<>>
  /\ scraped = <<>>
  /\ invoked = {}
  /\ delays = 0
  /\ progress = <<>>
  /\ last_pause = FALSE

BatchIdle ==
  /\ profile_urls = <<>>
  /\ i = 1
  /\ results = <<>>
  /\ origin = <<>>
  /\ pc = "idle"
  /\ exc = NoExc
  /\ profile_data = PrivateRecord("")
  /\ steamid = ""
  /\ summary = NoSummary
  /\ games = <<>>
  /\ recent_data = RecentDefault
  /\ level = 0
  /\ friends = <<>>
  /\ groups = <<>>
  /\ calls = <<>>
  /\ scraped = <<>>
  /\ invoked = {}
  /\ delays = 0
  /\ progress = <<>>
  /\ last_pause = FALSE

Init ==
  /\ BatchInit
  /\ RetryIdle
  /\ NormIdle
  /\ KeyIdle
  /\ AggIdle
  /\ ResolveIdle
  /\ PricesIdle

Next ==
  \/ LoopEnter
  \/ ExtractSteamid
  \/ GetProfileSummary
  \/ GetGamesFromHtml
  \/ GetGames
  \/ GetRecentPlaytime
  \/ GetSteamLevel
  \/ GetFriends
  \/ GetGroups
  \/ AppendResult
  \/ Display
  \/ Progress
  \/ Sleep
  \/ Except
  \/ Finish

Spec == Init /\ [][Next]_vars

SpecFair == Spec /\ WF_vars(Next)

InitRetry ==
  /\ RetryInit
  /\ BatchIdle
  /\ NormIdle
  /\ KeyIdle
  /\ AggIdle
  /\ ResolveIdle
  /\ PricesIdle

NextRetry ==
  \/ RetryAttempt
  \/ RetryExhausted

SpecRetry == InitRetry /\ [][NextRetry]_vars

InitNorm ==
  /\ NormInit
  /\ BatchIdle
  /\ RetryIdle
  /\ KeyIdle
  /\ AggIdle
  /\ ResolveIdle
  /\ PricesIdle

NextNorm ==
  \/ StoreEntry
  \/ StoreApiEntry
  \/ CreateExcelRow
  \/ OverviewTotal
  \/ LibraryTotal
  \/ GamesPageTotal

SpecNorm == InitNorm /\ [][NextNorm]_vars

InitKey ==
  /\ KeyInit
  /\ BatchIdle
  /\ RetryIdle
  /\ NormIdle
  /\ AggIdle
  /\ ResolveIdle
  /\ PricesIdle

NextKey ==
  \/ TypeKey
  \/ ConfirmKey
  \/ ChangeKey
  \/ CollectWithKey

SpecKey == InitKey /\ [][NextKey]_vars

InitAgg ==
  /\ AggInit
  /\ BatchIdle
  /\ RetryIdle
  /\ NormIdle
  /\ KeyIdle
  /\ ResolveIdle
  /\ PricesIdle

NextAgg ==
  \/ CreateExcel
  \/ RenderGamesPage
  \/ RenderOverviewPage

SpecAgg == InitAgg /\ [][NextAgg]_vars

InitResolve ==
  /\ ResolveInit
  /\ BatchIdle
  /\ RetryIdle
  /\ NormIdle
  /\ KeyIdle
  /\ AggIdle
  /\ PricesIdle

NextResolve ==
  \/ ExtractFromUrl
  \/ ExtractFromPage

SpecResolve == InitResolve /\ [][NextResolve]_vars

InitPrices ==
  /\ PricesInit
  /\ BatchIdle
  /\ RetryIdle
  /\ NormIdle
  /\ KeyIdle
  /\ AggIdle
  /\ ResolveIdle

NextPrices ==
  \/ PriceRequest
  \/ PricesReturn

SpecPrices == InitPrices /\ [][NextPrices]_vars

TypeOK ==
  /\ i \in 1..(Len(profile_urls) + 1)
  /\ Len(origin) = Len(results)

\* ------------------------------------------------------------------------
\* Properties
\* ------------------------------------------------------------------------
IsErrorRecord(r) == "error" \in DOMAIN r

CalledAdapters == { calls[k] : k \in 1..Len(calls) }

\* C1: when the batch loop has ended, the result list has exactly one record
\* per input URL, whatever each item did, a raise after the append included.
C1_OneRecordPerInput ==
  pc = "done" => Len(results) = Len(profile_urls)

\* C2: every input URL is eventually handed to collect_profile, whatever
\* happened to the URLs before it.
C2_NeverAbortsEarly ==
  \A k \in 1..MaxUrls : (k <= Len(profile_urls)) ~> (k \in invoked)

C2_Witness ==
  /\ Len(results) >= 1
  /\ IsErrorRecord(results[1])
  /\ results[1].error = MaxRetriesMsg
  /\ 2 \in invoked

\* C3: at every point of the loop the record at index k of the result list
\* was produced from the input URL at index k.
C3_InputOrder ==
  \A k \in 1..Len(results) : origin[k] = k

\* C4: when the summary is absent or its visibility state is not 3,
\* collect_profile returns {steamid, error: PROFILE_PRIVATE} and none of the
\* games, recent playtime, level, friends or groups adapters is invoked.
C4_PrivacyGate ==
  /\ pc \in {"scrape", "api_games", "recent", "level", "friends", "groups"}
       => (summary.present /\ summary.profile_state = 3)
  /\ (pc = "append" /\ (~summary.present \/ summary.profile_state # 3))
       => /\ profile_data = [steamid |-> steamid, error |-> "PROFILE_PRIVATE"]
          /\ calls = <<"extract_steamid", "get_profile_summary">>

C4_Witness ==
  /\ pc = "append"
  /\ summary.present
  /\ summary.profile_state = 1
  /\ profile_data.error = "PROFILE_PRIVATE"

FirstOk(k) ==
  /\ script[k] = "200"
  /\ \A m \in 1..(k - 1) : script[m] # "200"

\* C5: when the server answers 429 to a request of the call and 200 (with a
\* body that decodes) to a later request within the three attempts, the call
\* returns the body of that 200 answer and does not raise.
C5_RetryAfter429 ==
  rpc = "done" =>
    \A j \in 1..max_retries, k \in 1..max_retries :
      (j < k /\ script[j] = "429" /\ FirstOk(k)) => outcome = Returned(k)

C5_Witness ==
  /\ rpc = "done"
  /\ script[1] = "429"
  /\ script[2] = "200"
  /\ outcome = Returned(2)

\* C6: a call issues at most 3 GET requests; it returns a value only from a
\* request answered with status 200; when no request is, the call ends in a
\* raise, and after three non-200 statuses in the max-retries raise.
C6_RetryBudget ==
  /\ gets <= 3
  /\ outcome.kind = "return"
       => (gets >= 1 /\ script[gets] = "200" /\ outcome.body = gets)
  /\ rpc = "done" => outcome.kind \in {"return", "raise"}
  /\ (rpc = "done" /\ \A m \in 1..3 : script[m] # "200")
       => outcome.kind = "raise"
  /\ (rpc = "done" /\ \A m \in 1..3 : script[m] \in {"429", "500"})
       => (outcome = Raised(MaxRetriesMsg) /\ gets = 3)

C6_Witness ==
  /\ rpc = "done"
  /\ gets = 3
  /\ \A m \in 1..3 : script[m] \in {"429", "500"}
  /\ outcome = Raised(MaxRetriesMsg)

RatIs(r, n) == r.num = n * r.den

ConsumersGive(n) ==
  /\ excel_minutes \in {0 - 1, n}
  /\ cs2_time = NotRun \/ RatIs(cs2_time, n)
  /\ total_hours = NotRun \/ RatIs(total_hours, n)
  /\ total_time = NotRun \/ RatIs(total_time, n)

AllConsumersRan ==
  /\ excel_minutes # 0 - 1
  /\ cs2_time # NotRun
  /\ total_hours # NotRun
  /\ total_time # NotRun

\* C7 as stated: the scraped string "12,5" yields 750 minutes at every
\* consumer.
C7_CommaAsDecimalPoint ==
  raw = <<"1", "2", ",", "5">> => ConsumersGive(750)

\* C7 as amended: the commas of the scraped string are deleted and every
\* consumer takes 60 times the number that is left: "12,5" yields 7500
\* minutes, "12.5" yields 750, and a string of digits and commas yields 60
\* times the number its digits spell.
C7_CommaStripped ==
  /\ raw = <<"1", "2", ",", "5">> => ConsumersGive(7500)
  /\ raw = <<"1", "2", ".", "5">> => ConsumersGive(750)
  /\ ((\A k \in 1..Len(raw) : raw[k] # ".") /\ (\E k \in 1..Len(raw) : raw[k] # ","))
       => ConsumersGive(60 * DigitsValue(SelectSeq(raw, LAMBDA c : c \in Digits)))

C7_Witness ==
  /\ raw = <<"1", "2", ",", "5">>
  /\ AllConsumersRan
  /\ excel_minutes = 7500

ResolutionJustFailed ==
  /\ pc \in {"loop", "done"}
  /\ calls = <<"extract_steamid">>
  /\ results # <<>>

LastResult == results[Len(results)]

C9_AdapterIsolation ==
  (pc = "except" /\ exc # UIMsg)
    => calls[Len(calls)] \notin {"get_games", "get_friends", "get_groups"}

\* C10: the scrape adapter is invoked before the API games adapter; the API
\* games adapter is invoked if and only if the scrape adapter yielded an
\* empty list; a non-empty scrape list is the games list of the record.
C10_GamesFallback ==
  /\ "get_games" \in CalledAdapters => "get_games_from_html" \in CalledAdapters
  /\ ("get_games_from_html" \in CalledAdapters /\ pc # "api_games")
       => ("get_games" \in CalledAdapters <=> scraped = <<>>)
  /\ (pc \in {"recent", "level", "friends", "groups", "append"} /\ scraped # <<>>)
       => games = scraped
  /\ (pc = "append" /\ ~IsErrorRecord(profile_data))
       => /\ profile_data.games = games
          /\ scraped # <<>> => profile_data.games = scraped

C10_Witness ==
  /\ pc = "append"
  /\ ~IsErrorRecord(profile_data)
  /\ scraped = <<>>
  /\ "get_games" \in CalledAdapters
  /\ profile_data.games = <<ApiGame>>

\* C14: in a batch of n inputs exactly n - 1 inter-profile delays occur, one
\* after every item except the last, also after an item that ended in an
\* exception caught by the loop.
C14_DelayBetweenItems ==
  pc = "done" => delays = Len(profile_urls) - 1

\* C15: a progress event (k, total) is emitted after every processed item,
\* whether it ended as success, error record or caught exception, so that
\* the last progress of a finished batch is (total, total).
C15_ProgressAfterEachItem ==
  pc = "done" =>
    /\ Len(progress) = Len(profile_urls)
    /\ progress[Len(progress)] = <<Len(profile_urls), Len(profile_urls)>>

LastCall == calls[Len(calls)]

AdapterRaised(names) ==
  /\ pc = "except"
  /\ exc # UIMsg
  /\ calls # <<>>
  /\ LastCall \in names

\* C18: when the summary adapter or the level adapter raises, no record of
\* collect_profile is stored: the one record stored for that input is the
\* error record {steamid: url, error: message of the exception}, without the
\* games fetched before.
C18_SummaryLevelPropagate ==
  [][AdapterRaised({"get_profile_summary", "get_steam_level"})
       => /\ exc \in ApiRaises
          /\ \A k \in 1..Len(results) : origin[k] # i
          /\ results' = Append(results, [steamid |-> profile_urls[i], error |-> exc])
          /\ pc' = "loop"]_vars

C18_Witness ==
  /\ pc \in {"loop", "done"}
  /\ calls # <<>>
  /\ LastCall = "get_steam_level"
  /\ scraped # <<>>
  /\ results # <<>>
  /\ LastResult = [steamid |-> profile_urls[origin[Len(results)]], error |-> MaxRetriesMsg]

PausingAdapters ==
  {"get_profile_summary", "get_steam_level", "get_games", "get_games_from_html",
   "get_friends", "get_groups"}

\* C19: every call of the summary, level, games, friends or groups adapter
\* that returns is followed by the 0.5 s pause, also when it returns None or
\* an empty list.
C19_PauseAfterEveryAdapter ==
  (pc \in {"scrape", "api_games", "recent", "level", "friends", "groups", "append"}
     /\ calls # <<>> /\ LastCall \in PausingAdapters)
    => last_pause

\* C17: the answer 429 to request n is followed by a sleep of 30 * n seconds
\* and any other non-200 status by a sleep of 5 seconds; each such answer
\* uses up one of the 3 attempts, and the next attempt follows the sleep
\* when one remains.
C17_BackoffSchedule ==
  /\ \A n \in 1..Len(slept) :
       /\ script[n] = "429" => slept[n] = 30 * n
       /\ script[n] = "500" => slept[n] = 5
  /\ \A n \in 1..gets : script[n] \in {"429", "500"} => n <= Len(slept)
  /\ rpc = "get" => (attempt = gets /\ attempt = Len(slept))
  /\ rpc = "done" => (gets = Len(slept) => gets = 3)

C17_Witness ==
  /\ rpc = "done"
  /\ slept = <<30, 5, 90>>
  /\ outcome = Raised(MaxRetriesMsg)

RatEq(a, b) == a.num * b.den = b.num * a.den

\* two consumers that have run hold the same value
Agree(a, b) == (a # NotRun /\ b # NotRun) => RatEq(a, b)

FromApi == playtime_forever # NoApiValue

\* C20 as stated: an API number is used unchanged, a scraped string is
\* multiplied by 60 once, and the export, the leaderboard, the library totals
\* and the per-game aggregate hold the same minutes for every entry.
C20_AllFourAgree ==
  /\ FromApi => ConsumersGive(playtime_forever)
  /\ Agree(cs2_time, total_hours)
  /\ Agree(cs2_time, total_time)
  /\ Agree(total_hours, total_time)
  /\ \A v \in {cs2_time, total_hours, total_time} :
       (excel_minutes # 0 - 1 /\ v # NotRun) => RatIs(v, excel_minutes)

\* C20 as amended: an API number is used unchanged, a scraped string is
\* multiplied by 60 once; the leaderboard, the library totals and the
\* per-game aggregate hold the same minutes and the export holds the integer
\* part of it.
C20_AgreeUpToExportInt ==
  /\ FromApi => ConsumersGive(playtime_forever)
  /\ (~FromApi /\ raw # <<>> /\ \A k \in 1..Len(raw) : raw[k] \in Digits)
       => ConsumersGive(60 * DigitsValue(raw))
  /\ Agree(cs2_time, total_hours)
  /\ Agree(cs2_time, total_time)
  /\ Agree(total_hours, total_time)
  /\ \A v \in {cs2_time, total_hours, total_time} :
       (excel_minutes # 0 - 1 /\ v # NotRun) => excel_minutes = v.num \div v.den

C20_Witness ==
  /\ playtime_forever = 60
  /\ AllConsumersRan
  /\ excel_minutes = 60
  /\ RatIs(total_time, 60)

\* C16: api_key_confirmed is true only if the stored api_key has exactly 32
\* characters, and every request of the collection code is sent while
\* api_key_confirmed is true, with such a key.
C16_KeyGate ==
  /\ api_key_confirmed => api_key.len = 32
  /\ \A k \in 1..Len(request_keys) :
       /\ request_keys[k].confirmed
       /\ request_keys[k].key.len = 32

C16_Witness ==
  /\ ~api_key_confirmed
  /\ api_key.len = 32
  /\ api_key_input.len = 33
  /\ Len(request_keys) = 1

\* the number of rows a sheet of that name holds, 0 when there is no such sheet
SheetRows(sh) == IF sh \in DOMAIN workbook THEN workbook[sh] ELSE 0

\* C11: the workbook of create_excel always has a Profiles sheet, and each of
\* Games, Friends, Groups is present if and only if the batch holds at least
\* one such row; k >= 1 group entries give a Groups sheet of exactly k rows
\* and zero friend entries give no Friends sheet.
C11_SheetPresence ==
  "excel" \in ran =>
    /\ "Profiles" \in DOMAIN workbook
    /\ "Games" \in DOMAIN workbook <=> AllOf(parsed_results, "games") # <<>>
    /\ "Friends" \in DOMAIN workbook <=> AllOf(parsed_results, "friends") # <<>>
    /\ "Groups" \in DOMAIN workbook <=> AllOf(parsed_results, "groups") # <<>>
    /\ SheetRows("Groups") = Len(AllOf(parsed_results, "groups"))

\* the names of the games of the success records
GameNames(rs) ==
  { AllOf(rs, "games")[k].name : k \in 1..Len(AllOf(rs, "games")) }

\* the normalized minutes of all entries of that name, summed
RECURSIVE MinutesOfName(_, _)
MinutesOfName(entries, name) ==
  IF entries = <<>> THEN Rat(0)
  ELSE IF Head(entries).name = name
    THEN RatAdd(GamesPagePlaytime(Head(entries)), MinutesOfName(Tail(entries), name))
    ELSE MinutesOfName(Tail(entries), name)

\* the profiles that own a game of that name
Owners(rs, name) ==
  { k \in 1..Len(Successes(rs)) :
      \E e \in 1..Len(Successes(rs)[k].games) : Successes(rs)[k].games[e].name = name }

\* C12: for each distinct game name over all success records, total_time is
\* the sum of the normalized minutes of all entries with that name and
\* players is the number of distinct profiles that own the game, also when
\* one profile's list holds two entries with the same name.
C12_PerGameAggregate ==
  "games" \in ran =>
    /\ DOMAIN all_games = GameNames(parsed_results)
    /\ \A name \in DOMAIN all_games :
         /\ RatEq(all_games[name].total_time,
                  MinutesOfName(AllOf(parsed_results, "games"), name))
         /\ all_games[name].players = Cardinality(Owners(parsed_results, name))

\* the place of a nickname in the leaderboard
PlaceOf(nick) == CHOOSE p \in 1..Len(cs2_data) : cs2_data[p].nickname = nick

RatLess(a, b) == a.num * b.den < b.num * a.den

\* C13: the leaderboard for the app ids {730, 710} lists every success
\* record once, by descending total minutes over that set; profiles with
\* equal totals keep their input order, and no pair with different minute
\* totals is listed with the smaller total first.
C13_LeaderboardByMinutes ==
  ("overview" \in ran /\ Successes(parsed_results) # <<>>) =>
    LET ok == Successes(parsed_results)
    IN /\ Len(cs2_data) = Len(ok)
       /\ \A k \in 1..Len(ok) : \E p \in 1..Len(cs2_data) : cs2_data[p].nickname = ok[k].nickname
       /\ \A a, b \in 1..Len(ok) :
            LET ta == Cs2Time(ok[a].games)
                tb == Cs2Time(ok[b].games)
            IN /\ RatLess(ta, tb) => PlaceOf(ok[b].nickname) < PlaceOf(ok[a].nickname)
               /\ (RatEq(ta, tb) /\ a < b) => PlaceOf(ok[a].nickname) < PlaceOf(ok[b].nickname)

\* the segment that follows the first "profiles" segment
IdInUrl(url) ==
  LET k == CHOOSE k \in 1..(Len(url) - 1) :
             url[k] = "profiles" /\ \A j \in 1..(k - 1) : url[j] # "profiles"
  IN url[k + 1]

\* C21: extract_steamid either fails or returns a digits-only identifier;
\* for a URL with the /profiles/ path form it returns the identifier encoded
\* in the URL without any network request, also with a trailing slash, a
\* further path segment, or nothing after /profiles/.
C21_ResolverDigitsOnly ==
  epc = "done" =>
    /\ extracted.kind \in {"returned", "raised"}
    /\ extracted.kind = "returned" => extracted.value \in DigitSegments
    /\ HasProfilesForm(profile_url) =>
         /\ page_gets = 0
         /\ extracted.kind = "returned" => extracted.value = IdInUrl(profile_url)

\* ceil(n / 50)
CeilDiv(n, d) == (n + d - 1) \div d

\* the requests that carry the app id
CarriersOf(a) ==
  { r \in 1..Len(sent) : \E k \in 1..Len(sent[r]) : sent[r][k] = a }

\* C22: for n app ids get_game_prices issues ceil(n/50) storefront requests,
\* each request carries at most 50 app ids, and every app id of the input is
\* carried by exactly one request: the chunk built for a request is what
\* that request sends.
C22_PriceBatching ==
  ppc = "done" =>
    /\ Len(sent) = CeilDiv(Len(appids), ChunkSize)
    /\ \A r \in 1..Len(sent) : Len(sent[r]) <= ChunkSize
    /\ \A k \in 1..Len(appids) : Cardinality(CarriersOf(appids[k])) = 1
    /\ sent = built

====
